---- MODULE Spec2Model ----
(***************************************************************************)
(* State-machine model of the route handlers of next-supabase-api.         *)
(*                                                                         *)
(*   /users            POST          src/unnamed/part_001                  *)
(*   /users/{userId}   DELETE, PATCH src/unnamed/part_002                  *)
(*   /ingredients      GET           src/app/api/ingredients/route.ts      *)
(*   /menu             PUT           src/unnamed/part_000                  *)
(*   /menu-items       GET, PUT      src/app/api/menu-items/route.ts       *)
(*   /login            POST          src/app/api/login/route.ts            *)
(*                                                                         *)
(* Each route has a specification of its own: Spec (provisioning),         *)
(* SpecIngredients, SpecMenu, SpecStoreMenu, SpecStorePut and SpecLogin;    *)
(* login reads what provisioning writes, so SpecLogin runs both.           *)
(*                                                                         *)
(* Every `await` on the Identity Provider or on the Relational Store is    *)
(* one step of a request; steps of different requests interleave freely.   *)
(* The collaborators are available: a select returns what the table holds  *)
(* (`.single()` reports an error exactly when it does not find one row),   *)
(* while a write (createUser, insert, update, delete, updateUserById) may  *)
(* be refused, which the handlers observe as `error`.                      *)
(***************************************************************************)
EXTENDS Integers, Sequences, FiniteSets, TLC

VARIABLES
    identities,   \* Identity Provider: id -> [email, password, user_metadata]
    profiles,     \* table Profiles:    id -> [company_code, role, store_name, group]
    lastId,       \* the last identity id the Identity Provider issued
    reqs,         \* request slot -> the handler invocation running in it
    response,     \* the response a provisioning handler returned last
    started,      \* number of provisioning requests accepted so far
    ingReq,       \* GET /ingredients: the invocation and, once done, its response
    ingQueries,   \* GET /ingredients: the Ingredient queries the invocation issued
    menuItems,    \* table MenuItem: menu_id -> row
    clock,        \* the time new Date() reads
    external,     \* changes external processes made to MenuItem so far
    menuReq,      \* PUT /menu: the invocation and, once done, its response
    storeItems,   \* table StoreItem, in the order a select returns its rows
    storeReq,     \* GET /menu-items: the invocation and, once done, its response
    storeMenuItems, \* table StoreMenuItem: store_menu_item_id -> row
    putReq,       \* PUT /menu-items: the invocation and, once done, its response
    tokens,       \* Identity Provider: the access tokens of the sessions it issued
    loginReq      \* POST /login: the invocation and, once done, its response

usersVars == <<identities, profiles, lastId, reqs, response, started>>
ingVars == <<ingReq, ingQueries>>
menuVars == <<menuItems, clock, external, menuReq>>
storeVars == <<storeItems, storeReq>>
putVars == <<storeMenuItems, putReq>>
loginVars == <<tokens, loginReq>>

vars == <<usersVars, ingVars, menuVars, storeVars, putVars, loginVars>>

\* what the handlers of one route leave alone: the state of the other routes
exceptUsers == <<ingVars, menuVars, storeVars, putVars, loginVars>>
exceptIngredients == <<usersVars, menuVars, storeVars, putVars, loginVars>>
exceptMenu == <<usersVars, ingVars, storeVars, putVars, loginVars>>
exceptStore == <<usersVars, ingVars, menuVars, putVars, loginVars>>
exceptPut == <<usersVars, ingVars, storeVars, loginVars>>
exceptLogin == <<ingVars, menuVars, storeVars, putVars>>

----------------------------------------------------------------------------
(* Bounds *)

MaxUsers == 3        \* identity ids the Identity Provider may issue

----------------------------------------------------------------------------
(* JavaScript values *)

Undefined == "undefined"
Null == "null"

\* !x for the string-or-undefined request fields
Falsy(x) == x \in {Undefined, Null, ""}

NoSession == 0
UserIds == 1..MaxUsers
\* Two provisioning requests overlap in a behaviour, one per slot.
Slots == {1, 2}

CompanyCodes == {"A", "B"}
Passwords == {"pw"}
Roles == {"admin", "store"}
\* the optional store attributes of a request body, given together or not
StoreAttrs ==
    {[store_name |-> Undefined, group |-> Undefined],
     [store_name |-> "S2", group |-> "G1"]}

----------------------------------------------------------------------------
(* Requests and responses *)

NoBody == [none |-> TRUE]

\* a free request slot
IdleReq ==
    [kind |-> "none", pc |-> "idle", session |-> NoSession, userId |-> 0,
     body |-> NoBody]

\* a handler invocation suspended at the await named by pc
InFlight(kind, pc, session, userId, body) ==
    [kind |-> kind, pc |-> pc, session |-> session, userId |-> userId,
     body |-> body]

NoResponse ==
    [route |-> "none", status |-> 0, error |-> "", userId |-> 0, data |-> <<>>]

\* NextResponse.json({ error: message }, { status })
createErrorResponse(route, message, status) ==
    [NoResponse EXCEPT !.route = route, !.status = status, !.error = message]

\* NextResponse.json(data): status 200
createSuccessResponse(route, userId, data) ==
    [NoResponse EXCEPT !.route = route, !.status = 200, !.userId = userId,
                       !.data = data]

\* a request is accepted into the first free slot
CanStart(s) ==
    /\ reqs[s].pc = "idle"
    /\ \A q \in Slots : q < s => reqs[q].pc # "idle"
    /\ started < Cardinality(Slots)

\* the handler in slot s returns resp
Return(s, resp) ==
    /\ reqs' = [reqs EXCEPT ![s] = IdleReq]
    /\ response' = resp

\* the handler in slot s goes on to its next await
Continue(s, r) ==
    /\ reqs' = [reqs EXCEPT ![s] = r]
    /\ UNCHANGED response

\* out is the response the handler returns, or the await it is suspended at
Proceed(s, out) ==
    IF "status" \in DOMAIN out THEN Return(s, out) ELSE Continue(s, out)

----------------------------------------------------------------------------
(* Authorization guard of POST /users and PATCH /users/{userId} *)

\* fetchUserError || !currentUser || currentUser.role !== "admin"
NotAdmin(callerId) ==
    \/ callerId \notin DOMAIN profiles
    \/ profiles[callerId].role # "admin"

----------------------------------------------------------------------------
(* POST /users : createUser *)

CreateUserBodies ==
    {[companyCode |-> c, password |-> p, role |-> r,
      storeName |-> a.store_name, group |-> a.group] :
        c \in CompanyCodes \cup {""}, p \in Passwords \cup {""},
        r \in Roles \cup {""}, a \in StoreAttrs}

\* `${companyCode}@example.com`
LoginHandle(companyCode) == companyCode \o "@example.com"

\* the argument of supabaseAdmin.auth.admin.createUser
NewIdentity(body) ==
    [email |-> LoginHandle(body.companyCode),
     password |-> body.password,
     user_metadata |-> [company_code |-> body.companyCode, role |-> body.role]]

\* a column the inserted object leaves undefined takes the column default
OrDefault(x) == IF x = Undefined THEN Null ELSE x

\* the row handed to from("Profiles").insert
NewProfile(body) ==
    [company_code |-> body.companyCode,
     role |-> body.role,
     store_name |-> IF body.role = "store" THEN OrDefault(body.storeName) ELSE Null,
     group |-> OrDefault(body.group)]

\* the Identity Provider keeps login handles unique
EmailTaken(email, exceptId) ==
    \E i \in DOMAIN identities \ {exceptId} : identities[i].email = email

\* request.json(), the validation, getSession and the caller's role lookup
UsersPOST_Start(s, session, body) ==
    /\ CanStart(s)
    /\ started' = started + 1
    /\ Proceed(s,
          IF Falsy(body.companyCode) \/ Falsy(body.password) \/ Falsy(body.role)
            THEN createErrorResponse("POST", "missing required fields", 400)
          ELSE IF session = NoSession
            THEN createErrorResponse("POST", "authentication required", 401)
          ELSE IF NotAdmin(session)
            THEN createErrorResponse("POST", "no permission", 403)
          ELSE InFlight("POST", "createIdentity", session, 0, body))
    /\ UNCHANGED <<identities, profiles, lastId>>
    /\ UNCHANGED exceptUsers

\* supabaseAdmin.auth.admin.createUser and the check of its result
UsersPOST_CreateIdentity(s) ==
    LET r == reqs[s]
        new == NewIdentity(r.body)
    IN  /\ r.kind = "POST" /\ r.pc = "createIdentity"
        /\ \/ /\ lastId < MaxUsers
              /\ ~EmailTaken(new.email, 0)
              /\ identities' = identities @@ ((lastId + 1) :> new)
              /\ lastId' = lastId + 1
              /\ Continue(s, [r EXCEPT !.pc = "insertProfile", !.userId = lastId + 1])
           \/ /\ Return(s, createErrorResponse("POST", "createUserError", 400))
              /\ UNCHANGED <<identities, lastId>>
        /\ UNCHANGED <<profiles, started>>
        /\ UNCHANGED exceptUsers

\* from("Profiles").insert and, when it succeeded, the success response
UsersPOST_InsertProfile(s) ==
    LET r == reqs[s]
    IN  /\ r.kind = "POST" /\ r.pc = "insertProfile"
        /\ \/ /\ r.userId \notin DOMAIN profiles
              /\ profiles' = profiles @@ (r.userId :> NewProfile(r.body))
              /\ Return(s, createSuccessResponse("POST", r.userId, <<>>))
           \/ /\ Continue(s, [r EXCEPT !.pc = "rollback"])
              /\ UNCHANGED profiles
        /\ UNCHANGED <<identities, lastId, started>>
        /\ UNCHANGED exceptUsers

\* the outcomes of supabaseAdmin.auth.admin.deleteUser(userId): the provider
\* removes the identity, or refuses and leaves it
DeleteIdentityOutcomes(userId) ==
    {[error |-> TRUE, identities |-> identities]}
    \cup (IF userId \in DOMAIN identities
            THEN {[error |-> FALSE,
                   identities |-> [i \in DOMAIN identities \ {userId} |->
                                       identities[i]]]}
            ELSE {})

\* if (insertError): await deleteUser(userId), its result dropped, then 400
UsersPOST_Rollback(s) ==
    LET r == reqs[s]
    IN  /\ r.kind = "POST" /\ r.pc = "rollback"
        /\ \E o \in DeleteIdentityOutcomes(r.userId) :
              identities' = o.identities
        /\ Return(s, createErrorResponse("POST", "insertError", 400))
        /\ UNCHANGED <<profiles, lastId, started>>
        /\ UNCHANGED exceptUsers

----------------------------------------------------------------------------
(* DELETE /users/{userId} : deleteUser *)

\* a guard that compares with another spelling of the role
IsHeadquarters_WrongCase(role) == role = "Admin"

\* userToDelete.role === "admin"
IsHeadquarters(role) == role = "admin"

\* params, the target's role lookup and the two refusals
UsersDELETE_Start(s, session, userId) ==
    /\ CanStart(s)
    /\ started' = started + 1
    /\ Proceed(s,
          IF userId \notin DOMAIN profiles
            THEN createErrorResponse("DELETE", "user not found", 404)
          ELSE IF IsHeadquarters(profiles[userId].role)
            THEN createErrorResponse("DELETE", "headquarters user", 403)
          ELSE InFlight("DELETE", "deleteAuth", session, userId, NoBody))
    /\ UNCHANGED <<identities, profiles, lastId>>
    /\ UNCHANGED exceptUsers

\* supabaseAdmin.auth.admin.deleteUser(userId) and if (authError)
UsersDELETE_DeleteAuth(s) ==
    LET r == reqs[s]
    IN  /\ r.kind = "DELETE" /\ r.pc = "deleteAuth"
        /\ \E o \in DeleteIdentityOutcomes(r.userId) :
              /\ identities' = o.identities
              /\ Proceed(s, IF o.error
                              THEN createErrorResponse("DELETE", "authError", 500)
                              ELSE [r EXCEPT !.pc = "deleteProfile"])
        /\ UNCHANGED <<profiles, lastId, started>>
        /\ UNCHANGED exceptUsers

\* a deletion of the Profile whose error is not looked at
UsersDELETE_DeleteProfile_Unchecked(s) ==
    LET r == reqs[s]
    IN  /\ r.kind = "DELETE" /\ r.pc = "deleteProfile"
        /\ \/ profiles' = [i \in DOMAIN profiles \ {r.userId} |-> profiles[i]]
           \/ UNCHANGED profiles
        /\ Return(s, createSuccessResponse("DELETE", 0, <<>>))
        /\ UNCHANGED <<identities, lastId, started>>
        /\ UNCHANGED exceptUsers

\* from("Profiles").delete().eq("id", userId) and if (profileError)
UsersDELETE_DeleteProfile(s) ==
    LET r == reqs[s]
    IN  /\ r.kind = "DELETE" /\ r.pc = "deleteProfile"
        /\ \/ /\ profiles' = [i \in DOMAIN profiles \ {r.userId} |-> profiles[i]]
              /\ Return(s, createSuccessResponse("DELETE", 0, <<>>))
           \/ /\ Return(s, createErrorResponse("DELETE", "profileError", 500))
              /\ UNCHANGED profiles
        /\ UNCHANGED <<identities, lastId, started>>
        /\ UNCHANGED exceptUsers

----------------------------------------------------------------------------
(* PATCH /users/{userId} : updateUser *)

\* the credentials a patch carries: none, a new company code or a new password
PatchCredentials ==
    {[company_code |-> Undefined, password |-> Undefined]}
    \cup {[company_code |-> c, password |-> Undefined] : c \in CompanyCodes}
    \cup {[company_code |-> Undefined, password |-> p] : p \in Passwords}

UpdateUserBodies ==
    {[company_code |-> k.company_code, password |-> k.password, role |-> r,
      store_name |-> a.store_name, group |-> a.group] :
        k \in PatchCredentials, r \in Roles \cup {Undefined}, a \in StoreAttrs}

\* authUpdateData: email when body.company_code, password when body.password
AuthUpdateData(body) ==
    [email |-> IF Falsy(body.company_code) THEN Undefined
               ELSE LoginHandle(body.company_code),
     password |-> IF Falsy(body.password) THEN Undefined ELSE body.password]

\* Object.keys(authUpdateData).length > 0
HasAuthUpdate(body) ==
    \E k \in DOMAIN AuthUpdateData(body) : AuthUpdateData(body)[k] # Undefined

\* body.role === "store" ? body.store_name : null
UpdatedStoreName(body) ==
    IF body.role = "store" THEN body.store_name ELSE Null

\* updateData, the object handed to from("Profiles").update
ProfileUpdateData(body) ==
    [company_code |-> body.company_code,
     role |-> body.role,
     store_name |-> UpdatedStoreName(body),
     group |-> body.group]

\* an update writes the keys of the object that are not undefined
ApplyUpdate(row, data) ==
    [f \in DOMAIN row |->
        IF f \in DOMAIN data /\ data[f] # Undefined THEN data[f] ELSE row[f]]

\* params, request.json(), getSession and the caller's role lookup
UsersPATCH_Start(s, session, userId, body) ==
    /\ CanStart(s)
    /\ started' = started + 1
    /\ Proceed(s,
          IF session = NoSession
            THEN createErrorResponse("PATCH", "authentication required", 401)
          ELSE IF NotAdmin(session)
            THEN createErrorResponse("PATCH", "no permission", 403)
          ELSE InFlight("PATCH",
                        IF HasAuthUpdate(body) THEN "updateAuth" ELSE "updateProfile",
                        session, userId, body))
    /\ UNCHANGED <<identities, profiles, lastId>>
    /\ UNCHANGED exceptUsers

\* supabaseAdmin.auth.admin.updateUserById and if (updateAuthError)
UsersPATCH_UpdateAuth(s) ==
    LET r == reqs[s]
        data == AuthUpdateData(r.body)
    IN  /\ r.kind = "PATCH" /\ r.pc = "updateAuth"
        /\ \/ /\ r.userId \in DOMAIN identities
              /\ data.email = Undefined \/ ~EmailTaken(data.email, r.userId)
              /\ identities' = [identities EXCEPT ![r.userId] = ApplyUpdate(@, data)]
              /\ Continue(s, [r EXCEPT !.pc = "updateProfile"])
           \/ /\ Return(s, createErrorResponse("PATCH", "updateAuthError", 500))
              /\ UNCHANGED identities
        /\ UNCHANGED <<profiles, lastId, started>>
        /\ UNCHANGED exceptUsers

\* from("Profiles").update(updateData).eq("id", userId).select().single()
UsersPATCH_UpdateProfile(s) ==
    LET r == reqs[s]
    IN  /\ r.kind = "PATCH" /\ r.pc = "updateProfile"
        /\ \/ /\ r.userId \in DOMAIN profiles
              /\ profiles' = [profiles EXCEPT ![r.userId] =
                                 ApplyUpdate(@, ProfileUpdateData(r.body))]
              /\ Return(s, createSuccessResponse("PATCH", 0, <<profiles'[r.userId]>>))
           \/ /\ Return(s, createErrorResponse("PATCH", "updateProfileError", 500))
              /\ UNCHANGED profiles
        /\ UNCHANGED <<identities, lastId, started>>
        /\ UNCHANGED exceptUsers

----------------------------------------------------------------------------
(* GET /ingredients : listIngredients *)

MaxParamLen == 3     \* characters in the weekDates query parameter

\* The query string is a sequence of characters; Absent is searchParams.get
\* returning null.
Absent == <<"absent">>
ParamChars == {"1", "2", ","}
RECURSIVE StringsUpTo(_)
StringsUpTo(n) ==
    IF n = 0 THEN {<<>>}
    ELSE LET shorter == StringsUpTo(n - 1)
         IN  shorter \cup {Append(w, ch) : w \in shorter, ch \in ParamChars}
WeekDatesParams == {Absent} \cup StringsUpTo(MaxParamLen)

\* String.prototype.split(","): the pieces between the separators; the empty
\* string splits into one empty piece
RECURSIVE SplitFrom(_, _, _)
SplitFrom(str, i, piece) ==
    IF i > Len(str) THEN <<piece>>
    ELSE IF str[i] = "," THEN <<piece>> \o SplitFrom(str, i + 1, <<>>)
    ELSE SplitFrom(str, i + 1, Append(piece, str[i]))
Split(str) == SplitFrom(str, 1, <<>>)

\* searchParams.get("weekDates")?.split(",") || []
ParseWeekDates(param) == IF param = Absent THEN <<>> ELSE Split(param)

\* JavaScript objects carry a type tag; !v holds of null and undefined only
JsNull == [type |-> "null"]
JsFalsy(v) == v.type \in {"null", "undefined"}

\* the sessions a request's cookies can resolve to
StoreIds == {"A", "B"}
CookieSessions ==
    {JsNull} \cup
    {[type |-> "object",
      user |-> [user_metadata |-> [company_code |-> c]]] : c \in StoreIds}

\* supabase.auth.getSession() resolves to { data: { session }, error }
GetSession(cookie) ==
    [data |-> [type |-> "object", session |-> cookie], error |-> JsNull]

\* session.session?.user?.user_metadata?.company_code, session being `data`
StoreIdOf(data) ==
    IF JsFalsy(data.session) THEN Undefined
    ELSE data.session.user.user_metadata.company_code

\* table Ingredient
IngredientTable ==
    {[ingredient_id |-> 1, material_system_code |-> "m1", name |-> "flour",
      date |-> <<"1">>, quantity |-> 5, store_id |-> "A"],
     [ingredient_id |-> 2, material_system_code |-> "m2", name |-> "salt",
      date |-> <<"2">>, quantity |-> 1, store_id |-> "A"],
     [ingredient_id |-> 3, material_system_code |-> "m1", name |-> "flour",
      date |-> <<"1">>, quantity |-> 7, store_id |-> "B"]}

SeqRange(q) == {q[i] : i \in 1..Len(q)}

\* select(...).eq("store_id", storeId).in("date", weekDates)
SelectIngredients(storeId, weekDates) ==
    {[ingredient_id |-> row.ingredient_id,
      material_system_code |-> row.material_system_code,
      name |-> row.name, date |-> row.date, quantity |-> row.quantity] :
        row \in {x \in IngredientTable :
                    x.store_id = storeId /\ x.date \in SeqRange(weekDates)}}

IngIdle ==
    [pc |-> "idle", param |-> Absent, cookie |-> JsNull, storeId |-> Undefined,
     weekDates |-> <<>>, status |-> 0, error |-> "", data |-> {}]

IngRespond(r, status, error, data) ==
    [r EXCEPT !.pc = "done", !.status = status, !.error = error, !.data = data]

\* the URL parsing, the weekDates check, getSession and the session check
IngredientsGET_Start(param, cookie) ==
    LET weekDates == ParseWeekDates(param)
        session == GetSession(cookie).data
        r == [IngIdle EXCEPT !.param = param, !.cookie = cookie]
    IN  /\ ingReq.pc \in {"idle", "done"}
        /\ ingQueries' = {}
        /\ ingReq' =
              IF Len(weekDates) = 0
                THEN IngRespond(r, 400, "week dates missing", {})
              ELSE IF JsFalsy(session)
                THEN IngRespond(r, 401, "authentication required", {})
              ELSE [r EXCEPT !.pc = "query", !.storeId = StoreIdOf(session),
                             !.weekDates = weekDates]
        /\ UNCHANGED exceptIngredients

\* the Ingredient query and the response built from its result
IngredientsGET_Query ==
    /\ ingReq.pc = "query"
    /\ ingQueries' = ingQueries \cup
          {[store_id |-> ingReq.storeId, dates |-> ingReq.weekDates]}
    /\ \/ ingReq' = IngRespond(ingReq, 200, "",
                       SelectIngredients(ingReq.storeId, ingReq.weekDates))
       \/ ingReq' = IngRespond(ingReq, 500, "unable to fetch", {})
    /\ UNCHANGED exceptIngredients

IngInit == ingReq = IngIdle /\ ingQueries = {}

IngNext ==
    \/ \E param \in WeekDatesParams, cookie \in CookieSessions :
          IngredientsGET_Start(param, cookie)
    \/ IngredientsGET_Query

\* C4: a listIngredients request without a valid session is rejected (401, or
\* 400 when its weekDates are refused first) and issues no Ingredient query,
\* and every query issued carries the authenticated caller's store identifier.
C4_IngredientsRequireSession ==
    /\ (ingReq.pc = "done" /\ ingReq.cookie = JsNull) =>
          ingReq.status \in {400, 401} /\ ingQueries = {}
    /\ \A q \in ingQueries :
          /\ ingReq.cookie # JsNull
          /\ q.store_id = ingReq.cookie.user.user_metadata.company_code

\* C5: listIngredients with an empty weekDates parameter, absent or present
\* with an empty value, answers 400.
C5_EmptyWeekDatesRejected ==
    (ingReq.pc = "done" /\ ingReq.param \in {Absent, <<>>}) =>
        ingReq.status = 400

----------------------------------------------------------------------------
(* PUT /menu : updateMenuItem *)

MaxMenuItems == 3    \* rows of MenuItem
MaxClock == 2        \* readings of the clock
MaxExternal == 1     \* changes external processes make to MenuItem

\* an optional field of a request body: None is undefined
None == <<>>
Some(v) == <<v>>
Optional(S) == {None} \cup {Some(v) : v \in S}

MenuIds == 1..MaxMenuItems
MenuNames == {"n1", "n2"}

UpdateMenuItemBodies ==
    [name : MenuNames \cup {"n3"},
     isActive : Optional({FALSE}),
     price : Optional({12}),
     K : Optional({TRUE}),
     other : Optional({"x"})]

\* the row a menu_id holds before any update
InitialMenuItem(id) ==
    [name |-> IF id % 2 = 1 THEN "n1" ELSE "n2",
     price |-> 10, status |-> TRUE, description |-> Null, K |-> FALSE,
     other |-> Null, updated_at |-> 0]

\* a data object that carries status whether or not isActive was given
MenuUpdateData_Coerced(body, now) ==
    [status |-> IF body.isActive = None THEN Some(FALSE) ELSE body.isActive,
     price |-> body.price,
     K |-> body.K,
     other |-> body.other,
     updated_at |-> Some(now)]

\* data of updateMany: the spread of each field that is !== undefined, and
\* updated_at: new Date()
MenuUpdateData(body, now) ==
    [status |-> body.isActive,
     price |-> body.price,
     K |-> body.K,
     other |-> body.other,
     updated_at |-> Some(now)]

\* the row after an update with data: the columns data carries are written
UpdatedMenuItem(row, data) ==
    [f \in DOMAIN row |->
        IF f \in DOMAIN data /\ data[f] # None THEN data[f][1] ELSE row[f]]

\* where: { name: body.name }
MatchingMenuItems(name) == {id \in DOMAIN menuItems : menuItems[id].name = name}

MenuIdle ==
    [pc |-> "idle", body |-> None, now |-> 0, existingItem |-> None,
     count |-> None, status |-> 0, error |-> "", updatedCount |-> None]

\* request.json() and the dispatch of both queries of Promise.all
MenuPUT_Start(body) ==
    /\ menuReq.pc = "idle"
    /\ menuReq' = [MenuIdle EXCEPT !.pc = "queries", !.body = Some(body),
                                   !.now = clock]
    /\ UNCHANGED <<menuItems, clock, external>>
    /\ UNCHANGED exceptMenu

\* prisma.menuItem.findFirst({ where: { name } }): a row or null
MenuPUT_FindFirst ==
    /\ menuReq.pc = "queries" /\ menuReq.existingItem = None
    /\ menuReq' = [menuReq EXCEPT !.existingItem =
                      Some(MatchingMenuItems(menuReq.body[1].name) # {})]
    /\ UNCHANGED <<menuItems, clock, external>>
    /\ UNCHANGED exceptMenu

\* prisma.menuItem.updateMany({ where: { name }, data }): { count }, or a
\* rejection, which the catch block answers with 500
MenuPUT_UpdateMany ==
    LET body == menuReq.body[1]
        hit == MatchingMenuItems(body.name)
    IN  /\ menuReq.pc = "queries" /\ menuReq.count = None
        /\ \/ /\ menuItems' = [id \in DOMAIN menuItems |->
                    IF id \in hit
                      THEN UpdatedMenuItem(menuItems[id],
                                           MenuUpdateData(body, menuReq.now))
                      ELSE menuItems[id]]
              /\ menuReq' = [menuReq EXCEPT !.count = Some(Cardinality(hit))]
           \/ /\ menuReq' = [menuReq EXCEPT !.pc = "done", !.status = 500,
                                            !.error = "error updating"]
              /\ UNCHANGED menuItems
        /\ UNCHANGED <<clock, external>>
        /\ UNCHANGED exceptMenu

\* a test that looks at the lookup alone
MenuNotFound_LookupOnly(existingItem, count) == ~existingItem

\* !existingItem || updatedItem.count === 0
MenuNotFound(existingItem, count) == ~existingItem \/ count = 0

\* both promises resolved: the 404 test and the success response
MenuPUT_Respond ==
    /\ menuReq.pc = "queries"
    /\ menuReq.existingItem # None /\ menuReq.count # None
    /\ menuReq' =
          IF MenuNotFound(menuReq.existingItem[1], menuReq.count[1])
            THEN [menuReq EXCEPT !.pc = "done", !.status = 404,
                                 !.error = "menu item not found"]
            ELSE [menuReq EXCEPT !.pc = "done", !.status = 200,
                                 !.updatedCount = menuReq.count]
    /\ UNCHANGED <<menuItems, clock, external>>
    /\ UNCHANGED exceptMenu

\* time passes
Tick ==
    /\ clock < MaxClock
    /\ clock' = clock + 1
    /\ UNCHANGED <<menuItems, external, menuReq>>
    /\ UNCHANGED exceptMenu

\* an external business process deletes a MenuItem row or renames it
ExternalMenuChange ==
    /\ external < MaxExternal
    /\ external' = external + 1
    /\ \E id \in DOMAIN menuItems :
          \/ menuItems' = [i \in DOMAIN menuItems \ {id} |-> menuItems[i]]
          \/ \E n \in MenuNames \ {menuItems[id].name} :
                menuItems' = [menuItems EXCEPT ![id].name = n]
    /\ UNCHANGED <<clock, menuReq>>
    /\ UNCHANGED exceptMenu

MenuInit ==
    /\ menuItems = [id \in MenuIds |-> InitialMenuItem(id)]
    /\ clock = 1
    /\ external = 0
    /\ menuReq = MenuIdle

MenuNext ==
    \/ \E body \in UpdateMenuItemBodies : MenuPUT_Start(body)
    \/ MenuPUT_FindFirst
    \/ MenuPUT_UpdateMany
    \/ MenuPUT_Respond
    \/ Tick
    \/ ExternalMenuChange

\* the request's patch carries price and nothing else
OnlyPrice(body) ==
    body.price # None /\ body.isActive = None /\ body.K = None /\ body.other = None

\* the update of a price-only request is applied in this step
PriceOnlyUpdateStep ==
    /\ menuReq.pc = "queries" /\ menuReq.count = None
    /\ menuReq'.count # None
    /\ OnlyPrice(menuReq.body[1])

\* C8 as stated: the update of a price-only patch leaves every field other
\* than price of the matching rows as it was, and the other rows unchanged.
C8_OnlyPriceChanges ==
    [][PriceOnlyUpdateStep =>
          /\ DOMAIN menuItems' = DOMAIN menuItems
          /\ \A id \in DOMAIN menuItems :
                menuItems'[id] =
                    IF menuItems[id].name = menuReq.body[1].name
                      THEN [menuItems[id] EXCEPT !.price = menuReq.body[1].price[1]]
                      ELSE menuItems[id]]_vars

\* C8 amended: the update of a price-only patch sets price and updated_at of
\* the matching rows, leaves their other fields as they were, and leaves the
\* rows with another name unchanged.
C8_OnlyPriceAndUpdatedAtChange ==
    [][PriceOnlyUpdateStep =>
          /\ DOMAIN menuItems' = DOMAIN menuItems
          /\ \A id \in DOMAIN menuItems :
                menuItems'[id] =
                    IF menuItems[id].name = menuReq.body[1].name
                      THEN [menuItems[id] EXCEPT
                               !.price = menuReq.body[1].price[1],
                               !.updated_at = menuReq.now]
                      ELSE menuItems[id]]_vars

\* C8 witness: a price-only update went through rows of both kinds
C8_Witness ==
    /\ menuReq.pc = "done" /\ menuReq.status = 200
    /\ OnlyPrice(menuReq.body[1])
    /\ \E id \in DOMAIN menuItems : menuItems[id].price = 12
    /\ \E id \in DOMAIN menuItems : menuItems[id].price = 10

\* the handler answered from both query results
MenuAnswered ==
    menuReq.pc = "done" /\ menuReq.existingItem # None /\ menuReq.count # None

\* C9 as stated: once the lookup found a row the answer is success with the
\* count of affected rows, also when that count is 0.
C9_FoundRowMeansSuccess ==
    (MenuAnswered /\ menuReq.existingItem[1]) =>
        menuReq.status = 200 /\ menuReq.updatedCount = menuReq.count

\* C9 amended: the answer is 404 when the lookup found no row or the update
\* affected no row, and otherwise 200 with the count of affected rows, which
\* is then at least 1; a rejected update is answered with 500.
C9_NotFoundOrCount ==
    menuReq.pc = "done" =>
        IF menuReq.count = None
          THEN menuReq.status = 500
          ELSE /\ menuReq.existingItem # None
               /\ IF ~menuReq.existingItem[1] \/ menuReq.count[1] = 0
                    THEN menuReq.status = 404 /\ menuReq.updatedCount = None
                    ELSE /\ menuReq.status = 200
                         /\ menuReq.updatedCount = menuReq.count
                         /\ menuReq.count[1] >= 1

\* C9 witness: the lookup found a row, the update affected none: 404
C9_Witness ==
    /\ MenuAnswered
    /\ menuReq.existingItem[1] /\ menuReq.count[1] = 0
    /\ menuReq.status = 404

----------------------------------------------------------------------------
(* GET /menu-items : listStoreMenu *)

MaxStoreRows == 3    \* rows of StoreItem
MaxMenuId == 2       \* menu ids the StoreItem rows refer to

\* Number.prototype.toString of a natural number: its decimal digits
Digit == [d \in 0..9 |-> CASE d = 0 -> "0" [] d = 1 -> "1" [] d = 2 -> "2"
                           [] d = 3 -> "3" [] d = 4 -> "4" [] d = 5 -> "5"
                           [] d = 6 -> "6" [] d = 7 -> "7" [] d = 8 -> "8"
                           [] OTHER -> "9"]
RECURSIVE NumberToString(_)
NumberToString(n) == IF n < 10 THEN Digit[n] ELSE NumberToString(n \div 10) \o Digit[n % 10]

\* the users whose cookies the route sees, and table Profiles (company_id)
StoreCallers == {"u1", "u2", "u3", "u4"}
StoreProfiles ==
    [u \in {"u1", "u2", "u4"} |->
        [company_id |-> CASE u = "u1" -> "A" [] u = "u2" -> "admin" [] OTHER -> Null]]

\* table MenuCsv: the second row's menu_sys is not the decimal form of 2
MenuCsvTable ==
    <<[menu_sys |-> "1", menu_code |-> "c1"],
      [menu_sys |-> "02", menu_code |-> "c2"],
      [menu_sys |-> "1", menu_code |-> "c3"]>>

\* the StoreItem row at position i of the table
StoreItemRow(i, menu_id, store_id) ==
    [store_menu_item_id |-> 100 + i, menu_id |-> menu_id,
     menu_name |-> "item" \o NumberToString(i), price |-> 10 * i,
     status |-> (i % 2 = 1), store_id |-> store_id]

RECURSIVE StoreTablesOfLen(_)
StoreTablesOfLen(n) ==
    IF n = 0 THEN {<<>>}
    ELSE {Append(tbl, StoreItemRow(n, m, st)) :
             tbl \in StoreTablesOfLen(n - 1), m \in 1..MaxMenuId, st \in {"A", "B"}}
StoreTables == UNION {StoreTablesOfLen(n) : n \in 0..MaxStoreRows}

\* Array.prototype.findIndex with (t) => t.menu_id === menu_id, from position i
RECURSIVE FindIndexFrom(_, _, _)
FindIndexFrom(self, menu_id, i) ==
    IF i > Len(self) THEN 0
    ELSE IF self[i].menu_id = menu_id THEN i
    ELSE FindIndexFrom(self, menu_id, i + 1)

\* the position of the last row with the menu_id
FindIndex_Last(self, menu_id) ==
    LET hits == {i \in 1..Len(self) : self[i].menu_id = menu_id}
    IN  IF hits = {} THEN 0 ELSE CHOOSE i \in hits : \A j \in hits : j <= i

\* self.findIndex((t) => t.menu_id === item.menu_id)
FindIndex(self, menu_id) == FindIndexFrom(self, menu_id, 1)

\* menuItems.filter((item, index, self) => index === self.findIndex(...))
RECURSIVE FilterFirstFrom(_, _)
FilterFirstFrom(self, index) ==
    IF index > Len(self) THEN <<>>
    ELSE (IF index = FindIndex(self, self[index].menu_id)
            THEN <<self[index]>> ELSE <<>>)
         \o FilterFirstFrom(self, index + 1)
UniqueMenuItems(self) == FilterFirstFrom(self, 1)

\* menuCsvs.find((csv) => csv.menu_sys === item.menu_id.toString())?.menu_code
RECURSIVE MenuCodeFrom(_, _, _)
MenuCodeFrom(menuCsvs, menu_id, i) ==
    IF i > Len(menuCsvs) THEN Undefined
    ELSE IF menuCsvs[i].menu_sys = NumberToString(menu_id) THEN menuCsvs[i].menu_code
    ELSE MenuCodeFrom(menuCsvs, menu_id, i + 1)

\* the record uniqueMenuItems.map builds of a row; Number(price) of a number
TransformStoreItem(item, menuCsvs) ==
    [id |-> item.store_menu_item_id,
     menuId |-> item.menu_id,
     menu_code |-> MenuCodeFrom(menuCsvs, item.menu_id, 1),
     name |-> item.menu_name,
     price |-> item.price,
     isActive |-> item.status]

MapTransform(items, menuCsvs) ==
    [k \in 1..Len(items) |-> TransformStoreItem(items[k], menuCsvs)]

\* from("StoreItem").select("*").eq("store_id", company_id)
RECURSIVE SelectStoreItems(_, _)
SelectStoreItems(tbl, store_id) ==
    IF tbl = <<>> THEN <<>>
    ELSE (IF Head(tbl).store_id = store_id THEN <<Head(tbl)>> ELSE <<>>)
         \o SelectStoreItems(Tail(tbl), store_id)

StoreIdle ==
    [pc |-> "idle", cookie |-> Null, company_id |-> Null, menuItems |-> <<>>,
     status |-> 0, error |-> "", data |-> <<>>]

\* getSession: if (sessionError || !session) 401
StoreGET_Start(cookie) ==
    /\ storeReq.pc \in {"idle", "done"}
    /\ storeReq' =
          IF cookie = Null
            THEN [StoreIdle EXCEPT !.pc = "done", !.status = 401,
                                   !.error = "authentication required"]
            ELSE [StoreIdle EXCEPT !.pc = "profile", !.cookie = cookie]
    /\ UNCHANGED storeItems
    /\ UNCHANGED exceptStore

\* from("Profiles").select("company_id").eq("id", session.user.id).single()
\* and the two refusals
StoreGET_Profile ==
    LET u == storeReq.cookie
    IN  /\ storeReq.pc = "profile"
        /\ storeReq' =
              IF u \notin DOMAIN StoreProfiles \/ Falsy(StoreProfiles[u].company_id)
                THEN [storeReq EXCEPT !.pc = "done", !.status = 404,
                                      !.error = "store profile not found"]
              ELSE IF StoreProfiles[u].company_id = "admin"
                THEN [storeReq EXCEPT !.pc = "done", !.status = 403,
                                      !.error = "headquarters user"]
              ELSE [storeReq EXCEPT !.pc = "fetch",
                                    !.company_id = StoreProfiles[u].company_id]
        /\ UNCHANGED storeItems
        /\ UNCHANGED exceptStore

\* Promise.all of the two selects, the filter, the map and the response
StoreGET_Fetch ==
    LET fetched == SelectStoreItems(storeItems, storeReq.company_id)
        uniqueMenuItems == UniqueMenuItems(fetched)
    IN  /\ storeReq.pc = "fetch"
        /\ storeReq' = [storeReq EXCEPT
              !.pc = "done", !.status = 200, !.menuItems = fetched,
              !.data = MapTransform(uniqueMenuItems, MenuCsvTable)]
        /\ UNCHANGED storeItems
        /\ UNCHANGED exceptStore

StoreInit ==
    /\ storeItems \in StoreTables
    /\ storeReq = StoreIdle

\* every other route at rest: one StoreItem table
StoreAtRest ==
    /\ storeItems = <<>>
    /\ storeReq = StoreIdle

StoreNext ==
    \/ \E cookie \in StoreCallers \cup {Null} : StoreGET_Start(cookie)
    \/ StoreGET_Profile
    \/ StoreGET_Fetch

\* the positions of the rows that are the first with their menu_id
FirstOccurrences(rows) ==
    {i \in 1..Len(rows) : \A j \in 1..(i - 1) : rows[j].menu_id # rows[i].menu_id}

\* C10: the records listStoreMenu returns for the rows of the caller's store
\* have pairwise different menu_id, one for each menu_id among the rows, each
\* built from the first row with its menu_id, in the order of those rows.
C10_OneRecordPerMenuId ==
    (storeReq.pc = "done" /\ storeReq.status = 200) =>
        LET rows == storeReq.menuItems
            out == storeReq.data
            first == FirstOccurrences(rows)
        IN  /\ rows = SelectStoreItems(storeItems, storeReq.company_id)
            /\ \A k, l \in 1..Len(out) : k # l => out[k].menuId # out[l].menuId
            /\ {out[k].menuId : k \in 1..Len(out)} =
                  {rows[i].menu_id : i \in 1..Len(rows)}
            /\ Len(out) = Cardinality(first)
            /\ \A k \in 1..Len(out) :
                  \E i \in first :
                      /\ Cardinality({j \in first : j < i}) = k - 1
                      /\ out[k].id = rows[i].store_menu_item_id
                      /\ out[k].menuId = rows[i].menu_id
                      /\ out[k].name = rows[i].menu_name
                      /\ out[k].price = rows[i].price
                      /\ out[k].isActive = rows[i].status

\* C10 witness: rows with a repeated menu_id were collapsed into two records
C10_Witness ==
    /\ storeReq.pc = "done" /\ storeReq.status = 200
    /\ Len(storeReq.data) = 2
    /\ Len(storeReq.menuItems) = 3
    /\ storeReq.menuItems[1].menu_id = storeReq.menuItems[3].menu_id

----------------------------------------------------------------------------
(* PUT /menu-items : updateStoreMenuItem *)

MaxStoreMenuRows == 4    \* rows of StoreMenuItem

StoreMenuIds == 1..MaxStoreMenuRows

\* the row a store_menu_item_id holds before any update: both stores hold
\* items of both names
InitialStoreMenuItem(id) ==
    [store_id |-> IF id % 2 = 1 THEN "A" ELSE "B",
     menu_name |-> IF id <= 2 THEN "n1" ELSE "n2",
     price |-> 10, status |-> (id <= 2), updated_at |-> 0]

\* UpdateMenuItemRequest of this route: name, isActive?, price?
UpdateStoreMenuItemBodies ==
    [name : MenuNames \cup {"n3"},
     isActive : Optional(BOOLEAN),
     price : Optional({12})]

\* an update object that stores isActive as it was requested
StoreUpdateData_Direct(body, now) ==
    [status |-> body.isActive,
     price |-> body.price,
     updated_at |-> Some(now)]

\* the object of .update(): status: !body.isActive and price, each when
\* !== undefined, and updated_at: new Date().toISOString()
StoreUpdateData(body, now) ==
    [status |-> IF body.isActive # None THEN Some(~body.isActive[1]) ELSE None,
     price |-> body.price,
     updated_at |-> Some(now)]

\* isActive of the success response: body.isActive !== undefined ?
\* !body.isActive : undefined
EchoedIsActive(body) ==
    IF body.isActive # None THEN Some(~body.isActive[1]) ELSE None

\* .eq("store_id", profile.company_id).eq("menu_name", body.name)
MatchingStoreMenuItems(store_id, name) ==
    {id \in DOMAIN storeMenuItems :
        /\ storeMenuItems[id].store_id = store_id
        /\ storeMenuItems[id].menu_name = name}

PutIdle ==
    [pc |-> "idle", cookie |-> Null, company_id |-> Null, body |-> None,
     status |-> 0, error |-> "", isActive |-> None]

\* getSession: if (sessionError || !session) 401; the body the request
\* carries is read later, by request.json()
StorePUT_Start(cookie, body) ==
    /\ putReq.pc \in {"idle", "done"}
    /\ putReq' =
          IF cookie = Null
            THEN [PutIdle EXCEPT !.pc = "done", !.status = 401,
                                 !.error = "authentication required"]
            ELSE [PutIdle EXCEPT !.pc = "profile", !.cookie = cookie,
                                 !.body = Some(body)]
    /\ UNCHANGED <<storeMenuItems, menuVars>>
    /\ UNCHANGED exceptPut

\* from("Profiles").select("company_id").eq("id", session.user.id).single()
\* and the two refusals
StorePUT_Profile ==
    LET u == putReq.cookie
    IN  /\ putReq.pc = "profile"
        /\ putReq' =
              IF u \notin DOMAIN StoreProfiles \/ Falsy(StoreProfiles[u].company_id)
                THEN [putReq EXCEPT !.pc = "done", !.status = 404,
                                    !.error = "store profile not found"]
              ELSE IF StoreProfiles[u].company_id = "admin"
                THEN [putReq EXCEPT !.pc = "done", !.status = 403,
                                    !.error = "headquarters user"]
              ELSE [putReq EXCEPT !.pc = "update",
                                  !.company_id = StoreProfiles[u].company_id]
        /\ UNCHANGED <<storeMenuItems, menuVars>>
        /\ UNCHANGED exceptPut

\* from("StoreMenuItem").update(...).eq(store_id).eq(menu_name): applied, and
\* the success response; or refused (updateError), answered with 500
StorePUT_Update ==
    LET body == putReq.body[1]
        hit == MatchingStoreMenuItems(putReq.company_id, body.name)
    IN  /\ putReq.pc = "update"
        /\ \/ /\ storeMenuItems' = [id \in DOMAIN storeMenuItems |->
                    IF id \in hit
                      THEN UpdatedMenuItem(storeMenuItems[id],
                                           StoreUpdateData(body, clock))
                      ELSE storeMenuItems[id]]
              /\ putReq' = [putReq EXCEPT !.pc = "done", !.status = 200,
                                          !.isActive = EchoedIsActive(body)]
           \/ /\ putReq' = [putReq EXCEPT !.pc = "done", !.status = 500,
                                          !.error = "unable to update"]
              /\ UNCHANGED storeMenuItems
        /\ UNCHANGED menuVars
        /\ UNCHANGED exceptPut

PutInit ==
    /\ storeMenuItems = [id \in StoreMenuIds |-> InitialStoreMenuItem(id)]
    /\ putReq = PutIdle

StorePutNext ==
    \/ \E cookie \in StoreCallers \cup {Null}, body \in UpdateStoreMenuItemBodies :
          StorePUT_Start(cookie, body)
    \/ StorePUT_Profile
    \/ StorePUT_Update
    \/ Tick

\* C11: a successful updateStoreMenuItem that carries isActive leaves status
\* false on the caller's rows of the given name when isActive is true and
\* true when it is false, and echoes that same value as isActive; without
\* isActive, status stays as it was and nothing is echoed; the status of every
\* other row stays as it was.
C11_StatusIsNegatedIsActive ==
    [][(putReq.pc = "update" /\ putReq'.status = 200) =>
          LET body == putReq.body[1]
          IN  /\ DOMAIN storeMenuItems' = DOMAIN storeMenuItems
              /\ \A id \in DOMAIN storeMenuItems :
                    LET old == storeMenuItems[id]
                        new == storeMenuItems'[id]
                    IN  IF /\ old.store_id = putReq.company_id
                           /\ old.menu_name = body.name
                          THEN /\ body.isActive = Some(TRUE) => new.status = FALSE
                               /\ body.isActive = Some(FALSE) => new.status = TRUE
                               /\ body.isActive = None => new.status = old.status
                               /\ new.store_id = old.store_id
                               /\ new.menu_name = old.menu_name
                          ELSE new = old
              /\ body.isActive = Some(TRUE) => putReq'.isActive = Some(FALSE)
              /\ body.isActive = Some(FALSE) => putReq'.isActive = Some(TRUE)
              /\ body.isActive = None => putReq'.isActive = None]_vars

\* C11 witness: isActive true was answered with isActive false, and the
\* caller's row of that name, active at first, holds status false
C11_Witness ==
    /\ putReq.pc = "done" /\ putReq.status = 200
    /\ putReq.body[1].isActive = Some(TRUE)
    /\ putReq.isActive = Some(FALSE)
    /\ \E id \in DOMAIN storeMenuItems :
          /\ storeMenuItems[id].store_id = putReq.company_id
          /\ storeMenuItems[id].menu_name = putReq.body[1].name
          /\ InitialStoreMenuItem(id).status
          /\ ~storeMenuItems[id].status

----------------------------------------------------------------------------
(* The initial state: one headquarters user and one store user *)

UsersInit ==
    /\ identities = (1 :> [email |-> LoginHandle("HQ"), password |-> "pw",
                           user_metadata |-> [company_code |-> "HQ", role |-> "admin"]])
                 @@ (2 :> [email |-> LoginHandle("A"), password |-> "pw",
                           user_metadata |-> [company_code |-> "A", role |-> "store"]])
    /\ profiles = (1 :> [company_code |-> "HQ", role |-> "admin",
                         store_name |-> Null, group |-> Null])
               @@ (2 :> [company_code |-> "A", role |-> "store",
                         store_name |-> "S1", group |-> Null])
    /\ lastId = 2
    /\ reqs = [s \in Slots |-> IdleReq]
    /\ response = NoResponse
    /\ started = 0

Sessions == {NoSession} \cup UserIds

UsersNext ==
    \/ \E s \in Slots, c \in Sessions, b \in CreateUserBodies : UsersPOST_Start(s, c, b)
    \/ \E s \in Slots : UsersPOST_CreateIdentity(s)
    \/ \E s \in Slots : UsersPOST_InsertProfile(s)
    \/ \E s \in Slots : UsersPOST_Rollback(s)
    \/ \E s \in Slots, c \in Sessions, u \in UserIds : UsersDELETE_Start(s, c, u)
    \/ \E s \in Slots : UsersDELETE_DeleteAuth(s)
    \/ \E s \in Slots : UsersDELETE_DeleteProfile(s)
    \/ \E s \in Slots, c \in Sessions, u \in UserIds, b \in UpdateUserBodies :
          UsersPATCH_Start(s, c, u, b)
    \/ \E s \in Slots : UsersPATCH_UpdateAuth(s)
    \/ \E s \in Slots : UsersPATCH_UpdateProfile(s)

----------------------------------------------------------------------------
(* Claims about the provisioning workflow *)

\* the handler in slot s is suspended at pc of a kind-handler and returns
Returns(s, kind, pc) ==
    /\ reqs[s].kind = kind /\ reqs[s].pc = pc
    /\ reqs'[s] = IdleReq

\* C1: whenever createUser returns after its Profile insertion failed, the
\* Identity that request created is no longer held by the Identity Provider,
\* whatever the compensating delete answered.
C1_CompensationRemovesIdentity ==
    [][\A s \in Slots :
          Returns(s, "POST", "rollback") =>
              reqs[s].userId \notin DOMAIN identities']_vars

C3_OnlyAdminCallersWrite ==
    [][(identities' # identities \/ profiles' # profiles) =>
          \E s \in Slots :
              /\ reqs'[s] # reqs[s]
              /\ reqs[s].session # NoSession
              /\ reqs[s].session \in DOMAIN profiles
              /\ profiles[reqs[s].session].role = "admin"]_vars

\* the role that decides store_name according to the specification
EffectiveRole(body, row) ==
    IF body.role = Undefined THEN row.role ELSE body.role

\* C6: when updateUser updates the Profile, store_name becomes null unless
\* the effective role (the patch's, else the existing one) is store; for an
\* effective role of store it is the patch's store_name, else the existing one.
C6_StoreNameFollowsEffectiveRole ==
    [][\A s \in Slots :
          (Returns(s, "PATCH", "updateProfile") /\ response'.status = 200) =>
              LET b == reqs[s].body
                  old == profiles[reqs[s].userId]
              IN  profiles'[reqs[s].userId].store_name =
                      IF EffectiveRole(b, old) = "store"
                        THEN (IF b.store_name = Undefined THEN old.store_name
                              ELSE b.store_name)
                        ELSE Null]_vars

\* C7: deleteUser deletes the Identity, then the Profile: an absent target
\* Profile gives 404 and deletes nothing; a failed Identity deletion gives 500
\* and leaves the Profiles alone; the Profile is only deleted once the Identity
\* is gone; a failed Profile deletion gives 500; 200 only when both are gone.
C7_DeleteInSequence ==
    [][/\ \A s \in Slots, c \in Sessions, u \in UserIds :
             (UsersDELETE_Start(s, c, u) /\ u \notin DOMAIN profiles) =>
                 /\ response'.status = 404 /\ reqs' = reqs
                 /\ identities' = identities /\ profiles' = profiles
       /\ \A s \in Slots :
             (reqs[s].kind = "DELETE" /\ reqs'[s] # reqs[s]) =>
                 LET u == reqs[s].userId
                 IN  /\ reqs[s].pc = "deleteAuth" =>
                           /\ profiles' = profiles
                           /\ IF ~(u \in DOMAIN identities /\ u \notin DOMAIN identities')
                                THEN /\ reqs'[s] = IdleReq
                                     /\ response'.status = 500
                                     /\ identities' = identities
                                ELSE /\ reqs'[s].pc = "deleteProfile"
                                     /\ response' = response
                     /\ reqs[s].pc = "deleteProfile" =>
                           /\ u \notin DOMAIN identities
                           /\ identities' = identities
                           /\ reqs'[s] = IdleReq
                           /\ response'.status =
                                 IF u \in DOMAIN profiles' THEN 500 ELSE 200
                     /\ (reqs'[s] = IdleReq /\ response'.status = 200) =>
                           /\ u \notin DOMAIN identities'
                           /\ u \notin DOMAIN profiles']_vars

\* C7 witness: the Identity was deleted and the Profile deletion then failed
C7_Witness ==
    /\ response.route = "DELETE" /\ response.error = "profileError"
    /\ \E u \in DOMAIN profiles : u \notin DOMAIN identities

\* a request about user u is running
InFlightFor(u) ==
    \E s \in Slots : reqs[s].kind # "none" /\ reqs[s].userId = u

\* C13: for every user that has an Identity and a Profile, whenever no request
\* for that user is in flight, the Identity's login handle is the Profile's
\* company_code followed by @example.com, also after an updateUser that
\* returned an error.
C13_HandleMatchesCompanyCode ==
    \A u \in DOMAIN identities \cap DOMAIN profiles :
        ~InFlightFor(u) =>
            identities[u].email = LoginHandle(profiles[u].company_code)

----------------------------------------------------------------------------
(* POST /login : login *)

MaxLogins == 1       \* sessions the Identity Provider issues

\* LoginRequest: the handles of the company codes, a right and a wrong password
LoginEmails == {LoginHandle(c) : c \in CompanyCodes \cup {"HQ"}}
LoginPasswords == Passwords \cup {"bad"}

\* the identities signInWithPassword accepts the credentials for
Authenticated(email, password) ==
    {id \in DOMAIN identities :
        identities[id].email = email /\ identities[id].password = password}

\* the access token of the next session the Identity Provider issues to id
NewToken(id) == [sub |-> id, serial |-> Cardinality(tokens) + 1]

\* data of a successful signInWithPassword
AuthData(id, token) == [user |-> [id |-> id], session |-> [access_token |-> token]]

\* from("Profiles").select("company_code").eq("id", id).single(): the row, or
\* an error when there is none
SelectProfile(id) == IF id \in DOMAIN profiles THEN Some(profiles[id]) ELSE None

\* profileError || !profile?.company_code
CompanyCodeNotFound(profile) == profile = None \/ Falsy(profile[1].company_code)

\* a payload whose token is built anew for the user instead of passed on
LoginResponse_TokenRebuilt(profile, authData) ==
    [companyCode |-> profile.company_code,
     token |-> [sub |-> authData.user.id, serial |-> 0]]

\* { companyCode: profile.company_code, token: authData.session.access_token }
LoginResponse(profile, authData) ==
    [companyCode |-> profile.company_code, token |-> authData.session.access_token]

LoginIdle ==
    [pc |-> "idle", authData |-> None, status |-> 0, error |-> "", data |-> None]

\* request.json() and signInWithPassword: rejected (authError, 401) when no
\* identity has the credentials, and the provider may reject them anyway;
\* accepted, the provider issues a session
LoginPOST_SignIn(email, password) ==
    /\ loginReq.pc \in {"idle", "done"}
    /\ Cardinality(tokens) < MaxLogins
    /\ \/ /\ loginReq' = [LoginIdle EXCEPT !.pc = "done", !.status = 401,
                                           !.error = "authentication failed"]
          /\ UNCHANGED tokens
       \/ \E id \in Authenticated(email, password) :
             /\ tokens' = tokens \cup {NewToken(id)}
             /\ loginReq' = [LoginIdle EXCEPT !.pc = "profile",
                                !.authData = Some(AuthData(id, NewToken(id)))]
    /\ UNCHANGED usersVars
    /\ UNCHANGED exceptLogin

\* the Profile lookup, 404 and the success response
LoginPOST_Profile ==
    LET authData == loginReq.authData[1]
        profile == SelectProfile(authData.user.id)
    IN  /\ loginReq.pc = "profile"
        /\ loginReq' =
              IF CompanyCodeNotFound(profile)
                THEN [loginReq EXCEPT !.pc = "done", !.status = 404,
                                      !.error = "company code not found"]
                ELSE [loginReq EXCEPT !.pc = "done", !.status = 200,
                                      !.data = Some(LoginResponse(profile[1], authData))]
        /\ UNCHANGED <<tokens, usersVars>>
        /\ UNCHANGED exceptLogin

LoginNext ==
    \/ \E email \in LoginEmails, password \in LoginPasswords :
          LoginPOST_SignIn(email, password)
    \/ LoginPOST_Profile

\* the provisioning requests, handled one at a time
UsersOneAtATime ==
    \/ \E c \in Sessions, b \in CreateUserBodies : UsersPOST_Start(1, c, b)
    \/ UsersPOST_CreateIdentity(1)
    \/ UsersPOST_InsertProfile(1)
    \/ UsersPOST_Rollback(1)
    \/ \E c \in Sessions, u \in UserIds : UsersDELETE_Start(1, c, u)
    \/ UsersDELETE_DeleteAuth(1)
    \/ UsersDELETE_DeleteProfile(1)
    \/ \E c \in Sessions, u \in UserIds, b \in UpdateUserBodies :
          UsersPATCH_Start(1, c, u, b)
    \/ UsersPATCH_UpdateAuth(1)
    \/ UsersPATCH_UpdateProfile(1)

\* C12: login answers 401 when no identity has the credentials, then carrying
\* no token; after an accepted sign-in it answers 404 without a token when the
\* identity has no Profile with a company_code, and otherwise 200 with that
\* Profile's company_code and the very access token the provider issued for
\* this sign-in; no other answer carries a token.
C12_LoginOutcomes ==
    [][/\ \A email \in LoginEmails, password \in LoginPasswords :
             (LoginPOST_SignIn(email, password)
                 /\ Authenticated(email, password) = {}) =>
                 /\ loginReq'.pc = "done" /\ loginReq'.status = 401
                 /\ loginReq'.data = None /\ tokens' = tokens
       /\ (loginReq.pc = "profile" /\ loginReq'.pc = "done") =>
             LET id == loginReq.authData[1].user.id
                 issued == loginReq.authData[1].session.access_token
             IN  IF id \notin DOMAIN profiles \/ Falsy(profiles[id].company_code)
                   THEN loginReq'.status = 404 /\ loginReq'.data = None
                   ELSE /\ loginReq'.status = 200
                        /\ loginReq'.data # None
                        /\ loginReq'.data[1].companyCode = profiles[id].company_code
                        /\ loginReq'.data[1].token = issued
                        /\ issued \in tokens /\ issued.sub = id
       /\ (loginReq'.pc = "done" /\ loginReq'.status # 200) => loginReq'.data = None]_vars

\* C12 witness: the credentials were accepted and the identity had no Profile
C12_Witness ==
    /\ loginReq.pc = "done" /\ loginReq.status = 404
    /\ loginReq.authData # None /\ loginReq.data = None
    /\ tokens # {}

\* no login request, no session issued
LoginInit ==
    /\ tokens = {}
    /\ loginReq = LoginIdle

Init == UsersInit /\ IngInit /\ MenuInit /\ StoreAtRest /\ PutInit /\ LoginInit

Next == UsersNext

Spec == Init /\ [][Next]_vars

SpecIngredients == Init /\ [][IngNext]_vars

SpecMenu == Init /\ [][MenuNext]_vars

InitStoreMenu == UsersInit /\ IngInit /\ MenuInit /\ StoreInit /\ PutInit /\ LoginInit

SpecStoreMenu == InitStoreMenu /\ [][StoreNext]_vars

SpecStorePut == Init /\ [][StorePutNext]_vars

SpecLogin == Init /\ [][LoginNext \/ UsersOneAtATime]_vars

====
